---- MODULE Spec2Model ----
(***************************************************************************)
(* A model of src/transformer.py: the Transformer's construction, its      *)
(* weight storage (with weight tying), its persistence (save_pretrained /  *)
(* from_pretrained), the shapes its forward computation produces, the      *)
(* order of its sub-blocks, and the flow of information from token ids to  *)
(* logits through masked attention.                                        *)
(***************************************************************************)
EXTENDS Integers, Sequences, FiniteSets, TLC

VARIABLES
    model,      \* the Transformer object the caller holds: {} or {m}
    disk,       \* the directory of save_pretrained: config.json and model.pt
    loaded,     \* what the last from_pretrained returned: {} or {m}
    err,        \* the exception the last operation raised ("" when none)
    lastOp,     \* the last operation and its arguments
    steps,      \* in-place writes made so far by the training procedure
    constructs, \* Transformer objects the caller has constructed so far
    call        \* the result of the last encode / decode / forward call

vars == <<model, disk, loaded, err, lastOp, steps, constructs, call>>

(***************************************************************************)
(* Bounds of the model.                                                    *)
(***************************************************************************)
MaxLayers == 1       \* encoder layers and decoder layers of a configuration
MaxSteps == 1        \* in-place writes of the training procedure
MaxConstructs == 2   \* objects the caller constructs (SpecLoad)
MaxLen == 4          \* the largest max_len (SpecShape)
MaxBatch == 2        \* the largest batch size (SpecShape)
MaxFlowLen == 2      \* the longest source and target sequence (SpecFlow)

(***************************************************************************)
(* TransformerConfig                                                       *)
(***************************************************************************)
IntFields == <<"vocab_size", "n_encoder_layers", "n_decoder_layers",
               "n_encoder_heads", "n_decoder_heads", "embed_size", "d_ff",
               "max_len">>

BoolFields == <<"tie_embeddings", "post_ln", "use_additional_dropout",
                "xavier_initialization">>

ConfigFields == IntFields \o BoolFields

Range(s) == {s[i] : i \in DOMAIN s}

DefaultConfig ==
    [vocab_size |-> 8192, n_encoder_layers |-> 6, n_decoder_layers |-> 6,
     n_encoder_heads |-> 8, n_decoder_heads |-> 8, embed_size |-> 512,
     d_ff |-> 2048, max_len |-> 4096, tie_embeddings |-> TRUE,
     post_ln |-> TRUE, use_additional_dropout |-> FALSE,
     xavier_initialization |-> FALSE]

\* TransformerConfig(**kwargs): a field not given takes its default.
TransformerConfig(kwargs) ==
    LET Get(f) == IF f \in DOMAIN kwargs THEN kwargs[f] ELSE DefaultConfig[f]
    IN  [vocab_size |-> Get("vocab_size"),
         n_encoder_layers |-> Get("n_encoder_layers"),
         n_decoder_layers |-> Get("n_decoder_layers"),
         n_encoder_heads |-> Get("n_encoder_heads"),
         n_decoder_heads |-> Get("n_decoder_heads"),
         embed_size |-> Get("embed_size"),
         d_ff |-> Get("d_ff"),
         max_len |-> Get("max_len"),
         tie_embeddings |-> Get("tie_embeddings"),
         post_ln |-> Get("post_ln"),
         use_additional_dropout |-> Get("use_additional_dropout"),
         xavier_initialization |-> Get("xavier_initialization")]

(***************************************************************************)
(* The names of the parameters (the keys of state_dict), in the order the  *)
(* modules register them.  A key is <<module, layer, sub-module, name>>;   *)
(* the layer is -1 outside a layer list.                                   *)
(***************************************************************************)
LinearNames == <<"weight", "bias">>

AttnWeightNames == {"q_weights.weight", "k_weights.weight",
                    "v_weights.weight", "proj.weight"}

AttnNames == <<"q_weights.weight", "q_weights.bias", "k_weights.weight",
               "k_weights.bias", "v_weights.weight", "v_weights.bias",
               "proj.weight", "proj.bias">>

FFNames == <<"ff.0.weight", "ff.0.bias", "ff.3.weight", "ff.3.bias">>

KeysOf(module, layer, sub, names) ==
    [i \in DOMAIN names |-> <<module, layer, sub, names[i]>>]

EncoderLayerKeys(i) ==
    KeysOf("encoder.encoder_layers", i, "ff", FFNames)
    \o KeysOf("encoder.encoder_layers", i, "mha", AttnNames)
    \o KeysOf("encoder.encoder_layers", i, "ln1", LinearNames)
    \o KeysOf("encoder.encoder_layers", i, "ln2", LinearNames)

DecoderLayerKeys(i) ==
    KeysOf("decoder.decoder_layers", i, "ff", FFNames)
    \o KeysOf("decoder.decoder_layers", i, "mha", AttnNames)
    \o KeysOf("decoder.decoder_layers", i, "mmha", AttnNames)
    \o KeysOf("decoder.decoder_layers", i, "ln1", LinearNames)
    \o KeysOf("decoder.decoder_layers", i, "ln2", LinearNames)
    \o KeysOf("decoder.decoder_layers", i, "ln3", LinearNames)

RECURSIVE LayerListKeys(_, _, _)
\* nn.ModuleList([Layer(...) for _ in range(n_layers)]): layers i .. n_layers-1
LayerListKeys(decoder, i, n_layers) ==
    IF i >= n_layers THEN <<>>
    ELSE (IF decoder THEN DecoderLayerKeys(i) ELSE EncoderLayerKeys(i))
         \o LayerListKeys(decoder, i + 1, n_layers)

\* final_ln = None if post_ln else nn.LayerNorm(embed_size)
FinalLnKeys(module, post_ln) ==
    IF post_ln THEN <<>> ELSE KeysOf(module, -1, "final_ln", LinearNames)

EmbKey == <<"embeddings", -1, "", "weight">>
FcWeightKey == <<"fc", -1, "", "weight">>
FcBiasKey == <<"fc", -1, "", "bias">>

ParamKeys(cfg) ==
    LayerListKeys(FALSE, 0, cfg.n_encoder_layers)
    \o FinalLnKeys("encoder", cfg.post_ln)
    \o LayerListKeys(TRUE, 0, cfg.n_decoder_layers)
    \o FinalLnKeys("decoder", cfg.post_ln)
    \o <<EmbKey, FcWeightKey, FcBiasKey>>

\* The shape each parameter is created with.  No shape depends on a head count.
ParamShape(cfg, key) ==
    LET E == cfg.embed_size
        F == cfg.d_ff
        V == cfg.vocab_size
    IN  CASE key[1] = "embeddings" -> <<V, E>>
          [] key[1] = "fc" -> IF key[4] = "weight" THEN <<V, E>> ELSE <<V>>
          [] key[3] \in {"mha", "mmha"} ->
                IF key[4] \in AttnWeightNames THEN <<E, E>> ELSE <<E>>
          [] key[3] = "ff" ->
                CASE key[4] = "ff.0.weight" -> <<F, E>>
                  [] key[4] = "ff.0.bias" -> <<F>>
                  [] key[4] = "ff.3.weight" -> <<E, F>>
                  [] OTHER -> <<E>>
          [] OTHER -> <<E>>

(***************************************************************************)
(* positional_encoding(seq_len, embed_size): the sine columns fill the     *)
(* even slots and the cosine columns the odd slots; an assignment whose    *)
(* source cannot be broadcast to its destination raises.                   *)
(***************************************************************************)
Broadcastable(src, dst) == src = dst \/ src = 1

PositionalEncodingOK(embed_size) ==
    LET terms == (embed_size + 1) \div 2      \* len(arange(0, embed_size, 2))
        evenSlots == (embed_size + 1) \div 2  \* pos_encoding[:, ::2]
        oddSlots == embed_size \div 2         \* pos_encoding[:, 1::2]
    IN  Broadcastable(terms, evenSlots) /\ Broadcastable(terms, oddSlots)

(***************************************************************************)
(* Construction.  A tensor's content is abstract: who wrote it last (the   *)
(* default initializer of object obj, xavier_uniform_, or a training       *)
(* step), and into which storage.                                          *)
(***************************************************************************)
InitValue(obj, key) == [by |-> "init", n |-> obj, at |-> key]

\* MultiHeadAttention.__init__: assert embed_size % n_heads == 0
MultiHeadAttentionOK(n_heads, embed_size) == embed_size % n_heads = 0

\* Encoder / Decoder: one layer, hence one or two MultiHeadAttention, per
\* element of range(n_layers).
LayerStackOK(n_layers, n_heads, embed_size) ==
    \A i \in 0 .. n_layers - 1 : MultiHeadAttentionOK(n_heads, embed_size)

\* The exception Transformer.__init__ raises for cfg ("" when it returns).
ConstructError(cfg) ==
    IF ~PositionalEncodingOK(cfg.embed_size) THEN "RuntimeError"
    ELSE IF ~LayerStackOK(cfg.n_encoder_layers, cfg.n_encoder_heads,
                          cfg.embed_size) THEN "AssertionError"
    ELSE IF ~LayerStackOK(cfg.n_decoder_layers, cfg.n_decoder_heads,
                          cfg.embed_size) THEN "AssertionError"
    ELSE ""

\* A construction that leaves the two matrices apart.
KeepPointers(cfg, ptr) == ptr

\* if config.tie_embeddings: self.embeddings.weight = self.fc.weight
TiePointers(cfg, ptr) ==
    IF cfg.tie_embeddings THEN [ptr EXCEPT ![EmbKey] = ptr[FcWeightKey]]
    ELSE ptr

\* _init_params: xavier_uniform_ in place on every parameter with dim > 1
InitParams(m) ==
    [m EXCEPT !.mem =
        [s \in DOMAIN m.mem |->
            IF Len(m.mem[s].shape) > 1
            THEN [m.mem[s] EXCEPT !.val = [by |-> "xavier", n |-> m.obj,
                                          at |-> s]]
            ELSE m.mem[s]]]

\* Transformer.__init__ for a config it accepts; obj names the object.
NewTransformer(cfg, obj) ==
    LET keys == Range(ParamKeys(cfg))
        ptr == TiePointers(cfg, [k \in keys |-> k])
        storages == {ptr[k] : k \in keys}
        m == [config |-> cfg,
              obj |-> obj,
              pos_enc |-> <<cfg.max_len, cfg.embed_size>>,
              ptr |-> ptr,
              mem |-> [s \in storages |->
                          [shape |-> ParamShape(cfg, s),
                           val |-> InitValue(obj, s)]]]
    IN  IF cfg.xavier_initialization THEN InitParams(m) ELSE m

(***************************************************************************)
(* state_dict, torch.save / torch.load, load_state_dict                    *)
(***************************************************************************)
\* state_dict(): every registered name with the tensor it points at.
StateDict(m) == [k \in DOMAIN m.ptr |-> m.mem[m.ptr[k]]]

Last(S) == CHOOSE i \in S : \A j \in S : j <= i

\* param.copy_(input_param) for each key of the module, in order, where the
\* checkpoint has the key with the parameter's shape: a storage ends with
\* the tensor of the last key copied into it.
CopyParams(mem, ptr, sd, keys) ==
    [s \in DOMAIN mem |->
        LET copied == {i \in DOMAIN keys :
                          /\ ptr[keys[i]] = s
                          /\ keys[i] \in DOMAIN sd
                          /\ sd[keys[i]].shape = mem[s].shape}
        IN  IF copied = {} THEN mem[s]
            ELSE [mem[s] EXCEPT !.val = sd[keys[Last(copied)]].val]]

\* What load_state_dict(strict=True) reports: missing and unexpected keys,
\* and keys whose shapes differ.
LoadErrors(m, sd) ==
    [missing |-> DOMAIN m.ptr \ DOMAIN sd,
     unexpected |-> DOMAIN sd \ DOMAIN m.ptr,
     mismatched |-> {k \in DOMAIN m.ptr \cap DOMAIN sd :
                        sd[k].shape # m.mem[m.ptr[k]].shape}]

LoadStateDictOK(m, sd) ==
    LET e == LoadErrors(m, sd)
    IN  e.missing = {} /\ e.unexpected = {} /\ e.mismatched = {}

LoadStateDict(m, sd) ==
    [m EXCEPT !.mem = CopyParams(m.mem, m.ptr, sd, ParamKeys(m.config))]

(***************************************************************************)
(* config.json: json.dump(asdict(config)) and json.load                    *)
(***************************************************************************)
DigitStr(d) == <<"0", "1", "2", "3", "4", "5", "6", "7", "8", "9">>[d + 1]

DigitVal(c) == CHOOSE d \in 0 .. 9 : DigitStr(d) = c

RECURSIVE Digits(_)
Digits(n) ==
    IF n < 10 THEN <<DigitStr(n)>>
    ELSE Digits(n \div 10) \o <<DigitStr(n % 10)>>

\* A parser that reads the last digit only.
ParseLastDigit(text, acc) == DigitVal(text[Len(text)])

RECURSIVE ParseInt(_, _)
ParseInt(text, acc) ==
    IF text = <<>> THEN acc
    ELSE ParseInt(Tail(text), 10 * acc + DigitVal(Head(text)))

\* json.dump: an int as its decimal digits, a bool as true / false.
JsonDump(cfg) ==
    [f \in Range(ConfigFields) |->
        IF f \in Range(BoolFields)
        THEN [kind |-> "literal",
              text |-> IF cfg[f] THEN <<"true">> ELSE <<"false">>]
        ELSE [kind |-> "number", text |-> Digits(cfg[f])]]

JsonValue(tok) ==
    IF tok.kind = "literal" THEN tok.text = <<"true">>
    ELSE ParseInt(tok.text, 0)

\* json.load, then TransformerConfig(**config)
JsonLoad(doc) == TransformerConfig([f \in DOMAIN doc |-> JsonValue(doc[f])])

(***************************************************************************)
(* create_causal_mask(seq_len): torch.ones, torch.tril(diagonal=0), then   *)
(* the cast to uint8.  A matrix is a sequence of rows.                     *)
(***************************************************************************)
Ones(rows, cols) == [i \in 1 .. rows |-> [j \in 1 .. cols |-> 1]]

\* A triangle without its diagonal.
TrilStrict(m, diagonal) ==
    [i \in DOMAIN m |->
        [j \in DOMAIN m[i] |-> IF j - i < diagonal THEN m[i][j] ELSE 0]]

\* torch.tril keeps the entries on and below the diagonal-th diagonal.
Tril(m, diagonal) ==
    [i \in DOMAIN m |->
        [j \in DOMAIN m[i] |-> IF j - i <= diagonal THEN m[i][j] ELSE 0]]

ToUint8(m) == [i \in DOMAIN m |-> [j \in DOMAIN m[i] |-> m[i][j] % 256]]

\* A mask that hides nothing.
AllVisibleMask(seq_len) == ToUint8(Ones(seq_len, seq_len))

create_causal_mask(seq_len) == ToUint8(Tril(Ones(seq_len, seq_len), 0))

(***************************************************************************)
(* Shapes.  A tensor is its shape, whether the operations that made it     *)
(* all succeeded, the role of the stream it belongs to, and the log of     *)
(* the sub-block operations (attention, feed-forward, dropout, residual    *)
(* add, normalization) that produced it, in program order.                 *)
(***************************************************************************)
Max2(a, b) == IF a >= b THEN a ELSE b

Min2(a, b) == IF a <= b THEN a ELSE b

RECURSIVE Prod(_)
Prod(sh) == IF sh = <<>> THEN 1 ELSE Head(sh) * Prod(Tail(sh))

\* sh with leading 1s up to length n, as broadcasting aligns shapes.
PadLeft(sh, n) ==
    [i \in 1 .. n |-> IF i <= n - Len(sh) THEN 1 ELSE sh[i - (n - Len(sh))]]

BroadcastOK(a, b) ==
    LET n == Max2(Len(a), Len(b))
    IN  \A i \in 1 .. n :
           \/ PadLeft(a, n)[i] = PadLeft(b, n)[i]
           \/ PadLeft(a, n)[i] = 1
           \/ PadLeft(b, n)[i] = 1

BroadcastShape(a, b) ==
    LET n == Max2(Len(a), Len(b))
    IN  [i \in 1 .. n |->
            IF PadLeft(a, n)[i] = 1 THEN PadLeft(b, n)[i]
            ELSE PadLeft(a, n)[i]]

\* Whether a tensor of shape src can be broadcast to exactly shape dst, as
\* an in-place operation or masked_fill needs.
ExpandOK(src, dst) ==
    /\ Len(src) <= Len(dst)
    /\ \A i \in 1 .. Len(dst) :
          PadLeft(src, Len(dst))[i] = dst[i] \/ PadLeft(src, Len(dst))[i] = 1

Entry(op, name, mask, kv, res) ==
    [op |-> op, name |-> name, mask |-> mask, kv |-> kv, res |-> res]

NewTensor(sh, role) == [ok |-> TRUE, sh |-> sh, role |-> role, log |-> <<>>]

Failed(x) == [ok |-> FALSE, sh |-> <<>>, role |-> x.role, log |-> x.log]

\* One operation on x: it raises unless cond, and returns shape sh.
Step(x, cond, sh, entries) ==
    IF x.ok /\ cond
    THEN [ok |-> TRUE, sh |-> sh, role |-> x.role, log |-> x.log \o entries]
    ELSE Failed(x)

NoMask == [present |-> FALSE, sh |-> <<>>, kind |-> "none"]

MaskOf(sh, kind) == [present |-> TRUE, sh |-> sh, kind |-> kind]

LastDim(x) == x.sh[Len(x.sh)]

\* nn.Linear(in, out)
Linear(x, in, out) ==
    Step(x, Len(x.sh) >= 1 /\ LastDim(x) = in,
         [x.sh EXCEPT ![Len(x.sh)] = out], <<>>)

\* nn.LayerNorm(embed_size)
LayerNorm(x, embed_size, name) ==
    Step(x, Len(x.sh) >= 1 /\ LastDim(x) = embed_size, x.sh,
         <<Entry("ln", name, "", "", 0)>>)

\* nn.Dropout applied to the output of a sub-layer
Dropout(x, name) == Step(x, TRUE, x.sh, <<Entry("dropout", name, "", "", 0)>>)

\* x + y, where y was computed from x: the residual operand x is the
\* tensor the log held after its first Len(x.log) entries.
Add(x, y) ==
    IF x.ok /\ y.ok /\ BroadcastOK(x.sh, y.sh)
    THEN [ok |-> TRUE, sh |-> BroadcastShape(x.sh, y.sh), role |-> x.role,
          log |-> Append(y.log, Entry("add", "", "", "", Len(x.log)))]
    ELSE Failed(y)

\* x += y (in place): y must broadcast to the shape of x.
AddInPlace(x, ysh) == Step(x, ExpandOK(ysh, x.sh), x.sh, <<>>)

\* x.view(sh)
View(x, sh) == Step(x, Prod(x.sh) = Prod(sh), sh, <<>>)

\* x.transpose(i, j), dimensions counted from 1
Transpose(x, i, j) ==
    Step(x, Len(x.sh) >= i /\ Len(x.sh) >= j,
         [x.sh EXCEPT ![i] = x.sh[j], ![j] = x.sh[i]], <<>>)

\* a @ b for two rank-4 tensors
MatMul(a, b) ==
    Step(a,
         /\ b.ok
         /\ Len(a.sh) = 4 /\ Len(b.sh) = 4
         /\ a.sh[4] = b.sh[3]
         /\ BroadcastOK(SubSeq(a.sh, 1, 2), SubSeq(b.sh, 1, 2)),
         BroadcastShape(SubSeq(a.sh, 1, 2), SubSeq(b.sh, 1, 2))
            \o <<a.sh[3], b.sh[4]>>,
         <<>>)

\* An unsqueeze that adds no axis.
SameShape(mask, axis) == mask

\* mask.unsqueeze(axis), axes counted from 0
Unsqueeze(mask, axis) ==
    [mask EXCEPT !.sh = SubSeq(mask.sh, 1, axis) \o <<1>>
                        \o SubSeq(mask.sh, axis + 1, Len(mask.sh))]

\* attn_weights.masked_fill(mask == 0, float("-inf"))
MaskedFill(x, mask) == Step(x, ExpandOK(mask.sh, x.sh), x.sh, <<>>)

\* torch.softmax(attn_weights, dim=-1), then self.dropout
Softmax(x) == Step(x, TRUE, x.sh, <<>>)

\* if mask is not None: masked_fill with mask.unsqueeze(1)
MaskedScores(scores, mask) ==
    IF mask.present THEN MaskedFill(scores, Unsqueeze(mask, 1)) ELSE scores

\* ScaledDotProductAttention.forward
ScaledDotProductAttention(q, k, v, mask) ==
    MatMul(Softmax(MaskedScores(MatMul(q, Transpose(k, 3, 4)), mask)), v)

\* x.view(batch_size, x.size(1), n_heads, head_dim).transpose(1, 2)
SplitHeads(x, n_heads, head_dim) ==
    Transpose(View(x, <<x.sh[1], x.sh[2], n_heads, head_dim>>), 2, 3)

\* attentions.transpose(1, 2).contiguous().view(batch_size, q.size(2),
\* embed_size), q being the query split into heads
MergeHeads(attentions, q, embed_size) ==
    View(Transpose(attentions, 2, 3), <<q.sh[1], q.sh[3], embed_size>>)

\* The sub-layer x is the output of, as the log records it.
Logged(x, entry) == Step(x, TRUE, x.sh, <<entry>>)

\* MultiHeadAttention.forward from the split heads on: attention, merge,
\* projection.
AttendHeads(q, k, v, mask, embed_size, entry) ==
    Logged(Linear(MergeHeads(ScaledDotProductAttention(q, k, v, mask), q,
                             embed_size),
                  embed_size, embed_size),
           entry)

\* MultiHeadAttention.forward; name is the attribute the module is held in.
MultiHeadAttention(n_heads, embed_size, q, k, v, mask, name) ==
    AttendHeads(
        SplitHeads(Linear(q, embed_size, embed_size), n_heads,
                   embed_size \div n_heads),
        SplitHeads(Linear(k, embed_size, embed_size), n_heads,
                   embed_size \div n_heads),
        SplitHeads(Linear(v, embed_size, embed_size), n_heads,
                   embed_size \div n_heads),
        mask, embed_size, Entry("attention", name, mask.kind, k.role, 0))

\* FeedForward.forward: Linear, ReLU, Dropout, Linear
FeedForward(x, d_out, d_ff) ==
    Logged(Linear(Linear(x, d_out, d_ff), d_ff, d_out),
           Entry("ff", "ff", "", "", 0))

\* POST-norm feed-forward sub-block:
\* ln(attention + dropout(ff(attention)))
PostFeedForward(cfg, attention, dropout, ln) ==
    LayerNorm(Add(attention,
                  Dropout(FeedForward(attention, cfg.embed_size, cfg.d_ff),
                          dropout)),
              cfg.embed_size, ln)

\* PRE-norm feed-forward sub-block:
\* attention + dropout(ff(ln(attention)))
PreFeedForward(cfg, attention, ln, dropout) ==
    Add(attention,
        Dropout(FeedForward(LayerNorm(attention, cfg.embed_size, ln),
                            cfg.embed_size, cfg.d_ff),
                dropout))

\* EncoderLayer.forward
EncoderLayer(cfg, x, mask) ==
    IF cfg.post_ln
    THEN PostFeedForward(
             cfg,
             LayerNorm(Add(x, Dropout(MultiHeadAttention(
                                          cfg.n_encoder_heads, cfg.embed_size,
                                          x, x, x, mask, "mha"),
                                      "dropout1")),
                       cfg.embed_size, "ln1"),
             "dropout2", "ln2")
    ELSE PreFeedForward(
             cfg,
             Add(x, Dropout(MultiHeadAttention(
                                cfg.n_encoder_heads, cfg.embed_size,
                                LayerNorm(x, cfg.embed_size, "ln1"),
                                LayerNorm(x, cfg.embed_size, "ln1"),
                                LayerNorm(x, cfg.embed_size, "ln1"),
                                mask, "mha"),
                            "dropout1")),
             "ln2", "dropout2")

RECURSIVE EncoderLayers(_, _, _, _)
\* for encoder_layer in self.encoder_layers: x = encoder_layer(x, mask)
EncoderLayers(cfg, x, mask, i) ==
    IF i >= cfg.n_encoder_layers THEN x
    ELSE EncoderLayers(cfg, EncoderLayer(cfg, x, mask), mask, i + 1)

\* if self.final_ln is not None: x = self.final_ln(x)
FinalLn(cfg, module, x) ==
    IF FinalLnKeys(module, cfg.post_ln) # <<>>
    THEN LayerNorm(x, cfg.embed_size, "final_ln")
    ELSE x

\* An encoder that normalizes its output in both modes.
EncoderWithFinalLn(cfg, x, mask) ==
    LayerNorm(EncoderLayers(cfg, x, mask, 0), cfg.embed_size, "final_ln")

\* Encoder.forward
Encoder(cfg, x, mask) == FinalLn(cfg, "encoder", EncoderLayers(cfg, x, mask, 0))

\* POST-norm cross-attention sub-block of DecoderLayer.forward:
\* ln2(attention + dropout2(mha(attention, memory, memory)))
PostCrossAttention(cfg, attention, memory, encoder_mask) ==
    LayerNorm(Add(attention,
                  Dropout(MultiHeadAttention(
                              cfg.n_decoder_heads, cfg.embed_size,
                              attention, memory, memory, encoder_mask, "mha"),
                          "dropout2")),
              cfg.embed_size, "ln2")

\* PRE-norm cross-attention sub-block of DecoderLayer.forward:
\* attention + dropout2(mha(ln2(attention), memory, memory))
PreCrossAttention(cfg, attention, memory, encoder_mask) ==
    Add(attention,
        Dropout(MultiHeadAttention(
                    cfg.n_decoder_heads, cfg.embed_size,
                    LayerNorm(attention, cfg.embed_size, "ln2"),
                    memory, memory, encoder_mask, "mha"),
                "dropout2"))

\* DecoderLayer.forward
DecoderLayer(cfg, x, memory, causal_mask, encoder_mask) ==
    IF cfg.post_ln
    THEN PostFeedForward(
             cfg,
             PostCrossAttention(
                 cfg,
                 LayerNorm(Add(x, Dropout(MultiHeadAttention(
                                              cfg.n_decoder_heads,
                                              cfg.embed_size, x, x, x,
                                              causal_mask, "mmha"),
                                          "dropout1")),
                           cfg.embed_size, "ln1"),
                 memory, encoder_mask),
             "dropout3", "ln3")
    ELSE PreFeedForward(
             cfg,
             PreCrossAttention(
                 cfg,
                 Add(x, Dropout(MultiHeadAttention(
                                    cfg.n_decoder_heads, cfg.embed_size,
                                    LayerNorm(x, cfg.embed_size, "ln1"),
                                    LayerNorm(x, cfg.embed_size, "ln1"),
                                    LayerNorm(x, cfg.embed_size, "ln1"),
                                    causal_mask, "mmha"),
                                "dropout1")),
                 memory, encoder_mask),
             "ln3", "dropout3")

RECURSIVE DecoderLayers(_, _, _, _, _, _)
\* for decoder_layer in self.decoder_layers
DecoderLayers(cfg, x, memory, causal_mask, encoder_mask, i) ==
    IF i >= cfg.n_decoder_layers THEN x
    ELSE DecoderLayers(cfg,
                       DecoderLayer(cfg, x, memory, causal_mask, encoder_mask),
                       memory, causal_mask, encoder_mask, i + 1)

\* create_causal_mask(x.size(1)).unsqueeze(0), as a mask of the shape model
CausalMask(causal) ==
    Unsqueeze(MaskOf(<<Len(causal), Len(causal[1])>>, "causal"), 0)

\* Decoder.forward: the causal mask is made from the target length, given
\* a leading axis, and handed to every layer.
Decoder(cfg, x, memory, encoder_mask) ==
    FinalLn(cfg, "decoder",
            DecoderLayers(cfg, x, memory,
                          CausalMask(create_causal_mask(x.sh[2])),
                          encoder_mask, 0))

\* The embedding of token ids of shape (batch, len): lookup, scale by
\* sqrt(embed_size), add the first len rows of the positional table (in
\* place), dropout.
Embed(cfg, batch, len, role) ==
    AddInPlace(NewTensor(<<batch, len, cfg.embed_size>>, role),
               <<Min2(len, cfg.max_len), cfg.embed_size>>)  \* pos_enc[: len]

\* src_mask[:, torch.newaxis] if src_mask is not None
SourceMask(batch, src_len, hasMask) ==
    IF hasMask THEN Unsqueeze(MaskOf(<<batch, src_len>>, "padding"), 1)
    ELSE NoMask

\* The encoder output in its role as the decoder's memory.
AsMemory(x) == [x EXCEPT !.role = "memory"]

\* Transformer.encode: memory and src_mask
EncodeShapes(cfg, batch, src_len, hasMask) ==
    [memory |-> AsMemory(Encoder(cfg, Embed(cfg, batch, src_len, "src"),
                                 SourceMask(batch, src_len, hasMask))),
     src_mask |-> SourceMask(batch, src_len, hasMask)]

\* Transformer.decode from the embedded target on: the logits, and the
\* causal mask the decoder made (<<>> when the embedding raised).
DecodeEmbedded(cfg, memory, tgt_embed, src_mask) ==
    IF tgt_embed.ok
    THEN [out |-> Linear(Decoder(cfg, tgt_embed, memory, src_mask),
                         cfg.embed_size, cfg.vocab_size),
          tgt_mask |-> create_causal_mask(tgt_embed.sh[2])]
    ELSE [out |-> Failed(tgt_embed), tgt_mask |-> <<>>]

\* Transformer.decode
DecodeShapes(cfg, memory, batch, tgt_len, src_mask) ==
    DecodeEmbedded(cfg, memory, Embed(cfg, batch, tgt_len, "tgt"), src_mask)

(***************************************************************************)
(* Information flow.  A tensor of one batch row is its shape and its       *)
(* elements; an element is the set of input tokens <<side, position>> its  *)
(* value is computed from, so that a change of a token outside the set     *)
(* leaves the element as it was.  Dropout rescales or zeroes single        *)
(* elements and adds no input to any set.  Three marked elements are       *)
(* values, not sets of inputs: the -inf of masked_fill, the exact 0        *)
(* softmax gives a -inf score, and the NaN softmax gives a row of -inf     *)
(* only.                                                                   *)
(***************************************************************************)
NegInf == {<<"-inf", 0>>}

Zero == {<<"zero", 0>>}

NaN == {<<"nan", 0>>}

IsNaN(a) == <<"nan", 0>> \in a

\* A sum of terms: NaN if a term is, else computed from all of them.
Join(terms) == IF \E t \in terms : IsNaN(t) THEN NaN ELSE UNION terms

\* A product: NaN if a factor is, exactly 0 if a factor is, else computed
\* from both.
Term(a, b) ==
    IF IsNaN(a) \/ IsNaN(b) THEN NaN
    ELSE IF a = Zero \/ b = Zero THEN {}
    ELSE a \cup b

\* The place, from 0, of element idx of a contiguous tensor of shape sh
\* (of rank 2, 3 or 4).
Flat(sh, idx) ==
    CASE Len(sh) = 2 -> (idx[1] - 1) * sh[2] + (idx[2] - 1)
      [] Len(sh) = 3 -> ((idx[1] - 1) * sh[2] + (idx[2] - 1)) * sh[3]
                            + (idx[3] - 1)
      [] Len(sh) = 4 -> (((idx[1] - 1) * sh[2] + (idx[2] - 1)) * sh[3]
                            + (idx[3] - 1)) * sh[4] + (idx[4] - 1)

\* The index of the element at place n, from 0, of a contiguous tensor of
\* shape sh.
Unflat(sh, n) ==
    CASE Len(sh) = 2 -> <<(n \div sh[2]) + 1, (n % sh[2]) + 1>>
      [] Len(sh) = 3 -> <<(n \div (sh[2] * sh[3])) + 1,
                          ((n \div sh[3]) % sh[2]) + 1, (n % sh[3]) + 1>>
      [] Len(sh) = 4 -> <<(n \div (sh[2] * sh[3] * sh[4])) + 1,
                          ((n \div (sh[3] * sh[4])) % sh[2]) + 1,
                          ((n \div sh[4]) % sh[3]) + 1, (n % sh[4]) + 1>>

\* The indices of a tensor of shape sh (of rank 2, 3 or 4).
Indices(sh) ==
    CASE Len(sh) = 2 -> {<<a, b>> : a \in 1 .. sh[1], b \in 1 .. sh[2]}
      [] Len(sh) = 3 -> {<<a, b, c>> : a \in 1 .. sh[1], b \in 1 .. sh[2],
                                       c \in 1 .. sh[3]}
      [] Len(sh) = 4 -> {<<a, b, c, d>> : a \in 1 .. sh[1], b \in 1 .. sh[2],
                                          c \in 1 .. sh[3], d \in 1 .. sh[4]}

\* An index written as a tuple.
Tuple(idx) ==
    CASE Len(idx) = 2 -> <<idx[1], idx[2]>>
      [] Len(idx) = 3 -> <<idx[1], idx[2], idx[3]>>
      [] Len(idx) = 4 -> <<idx[1], idx[2], idx[3], idx[4]>>

At(x, idx) == x.data[idx]

Build(sh, F(_)) == [sh |-> sh, data |-> [idx \in Indices(sh) |-> F(idx)]]

\* self.embeddings(ids), scaled, plus the positional rows: element
\* (1, l, e) is computed from token l alone.
EmbedFlow(len, embed_size, side) ==
    Build(<<1, len, embed_size>>, LAMBDA idx : {<<side, idx[2]>>})

\* nn.Linear(in, out): every output feature is computed from every input
\* feature of the same position.
LinearFlow(x, out) ==
    LET r == Len(x.sh)
    IN  Build([x.sh EXCEPT ![r] = out],
              LAMBDA idx : Join({At(x, [idx EXCEPT ![r] = i]) :
                                    i \in 1 .. x.sh[r]}))

\* nn.LayerNorm: mean and variance over the features of the position.
LayerNormFlow(x) == LinearFlow(x, x.sh[Len(x.sh)])

AddFlow(x, y) == Build(x.sh, LAMBDA idx : Join({At(x, idx), At(y, idx)}))

\* x.view(sh): the same elements in the same row-major order under
\* another shape.
ViewFlow(x, sh) ==
    Build(sh, LAMBDA idx : At(x, Unflat(x.sh, Flat(sh, idx))))

\* x.transpose(i, j), made contiguous.
TransposeFlow(x, i, j) ==
    Build([x.sh EXCEPT ![i] = x.sh[j], ![j] = x.sh[i]],
          LAMBDA idx : At(x, [idx EXCEPT ![i] = idx[j], ![j] = idx[i]]))

\* a @ b for rank-4 tensors with the same leading dimensions.
MatMulFlow(a, b) ==
    Build(<<a.sh[1], a.sh[2], a.sh[3], b.sh[4]>>,
          LAMBDA idx :
              Join({Term(At(a, <<idx[1], idx[2], idx[3], k>>),
                         At(b, <<idx[1], idx[2], k, idx[4]>>)) :
                       k \in 1 .. a.sh[4]}))

\* A mask of the flow model: its shape and its 0 / 1 entries.
MaskFlow(sh, F(_)) ==
    [present |-> TRUE, sh |-> sh, data |-> [idx \in Indices(sh) |-> F(idx)]]

\* mask.unsqueeze(axis), axes counted from 0: a view with one more axis.
UnsqueezeFlow(mask, axis) ==
    LET sh == Unsqueeze(mask, axis).sh
    IN  MaskFlow(sh, LAMBDA idx : At(mask, Unflat(mask.sh, Flat(sh, idx))))

NoMaskFlow == [present |-> FALSE, sh |-> <<>>, data |-> <<>>]

\* The entry of the mask that broadcasting puts at index idx of shape sh.
BroadcastAt(mask, sh, idx) ==
    LET off == Len(sh) - Len(mask.sh)
    IN  At(mask, Tuple([i \in 1 .. Len(mask.sh) |->
                           IF mask.sh[i] = 1 THEN 1 ELSE idx[i + off]]))

\* A masked_fill that fills nothing.
KeepScores(x, mask) == x

\* attn_weights.masked_fill(mask == 0, float("-inf"))
MaskedFillFlow(x, mask) ==
    Build(x.sh, LAMBDA idx : IF BroadcastAt(mask, x.sh, idx) = 0 THEN NegInf
                             ELSE At(x, idx))

\* torch.softmax(x, dim=-1)
SoftmaxFlow(x) ==
    Build(x.sh,
          LAMBDA idx :
              LET row == [j \in 1 .. x.sh[4] |-> At(x, [idx EXCEPT ![4] = j])]
                  finite == {j \in DOMAIN row : row[j] # NegInf}
              IN  IF finite = {} \/ \E j \in DOMAIN row : IsNaN(row[j])
                  THEN NaN
                  ELSE IF row[idx[4]] = NegInf THEN Zero
                  ELSE UNION {row[j] : j \in finite})

\* if mask is not None: masked_fill with mask.unsqueeze(1)
MaskedScoresFlow(scores, mask) ==
    IF mask.present THEN MaskedFillFlow(scores, UnsqueezeFlow(mask, 1))
    ELSE scores

\* ScaledDotProductAttention.forward
ScaledDotProductAttentionFlow(q, k, v, mask) ==
    MatMulFlow(SoftmaxFlow(MaskedScoresFlow(
                               MatMulFlow(q, TransposeFlow(k, 3, 4)), mask)),
               v)

\* x.view(batch_size, x.size(1), n_heads, head_dim).transpose(1, 2)
SplitHeadsFlow(x, n_heads, head_dim) ==
    TransposeFlow(ViewFlow(x, <<x.sh[1], x.sh[2], n_heads, head_dim>>), 2, 3)

\* attentions.transpose(1, 2).contiguous().view(batch_size, q.size(2),
\* embed_size), q being the query split into heads
MergeHeadsFlow(attentions, q, embed_size) ==
    ViewFlow(TransposeFlow(attentions, 2, 3), <<q.sh[1], q.sh[3], embed_size>>)

\* MultiHeadAttention.forward from the split heads on
AttendHeadsFlow(q, k, v, mask, embed_size) ==
    LinearFlow(MergeHeadsFlow(ScaledDotProductAttentionFlow(q, k, v, mask), q,
                              embed_size),
               embed_size)

\* MultiHeadAttention.forward
MultiHeadAttentionFlow(n_heads, embed_size, q, k, v, mask) ==
    AttendHeadsFlow(
        SplitHeadsFlow(LinearFlow(q, embed_size), n_heads,
                       embed_size \div n_heads),
        SplitHeadsFlow(LinearFlow(k, embed_size), n_heads,
                       embed_size \div n_heads),
        SplitHeadsFlow(LinearFlow(v, embed_size), n_heads,
                       embed_size \div n_heads),
        mask, embed_size)

\* FeedForward.forward
FeedForwardFlow(x, d_out, d_ff) == LinearFlow(LinearFlow(x, d_ff), d_out)

\* POST-norm feed-forward sub-block
PostFeedForwardFlow(cfg, attention) ==
    LayerNormFlow(AddFlow(attention,
                          FeedForwardFlow(attention, cfg.embed_size, cfg.d_ff)))

\* PRE-norm feed-forward sub-block
PreFeedForwardFlow(cfg, attention) ==
    AddFlow(attention,
            FeedForwardFlow(LayerNormFlow(attention), cfg.embed_size, cfg.d_ff))

\* self-attention: queries, keys and values from the same tensor
SelfAttentionFlow(n_heads, embed_size, x, mask) ==
    MultiHeadAttentionFlow(n_heads, embed_size, x, x, x, mask)

\* EncoderLayer.forward
EncoderLayerFlow(cfg, x, mask) ==
    IF cfg.post_ln
    THEN PostFeedForwardFlow(
             cfg,
             LayerNormFlow(AddFlow(x, SelfAttentionFlow(
                                          cfg.n_encoder_heads, cfg.embed_size,
                                          x, mask))))
    ELSE PreFeedForwardFlow(
             cfg,
             AddFlow(x, SelfAttentionFlow(cfg.n_encoder_heads, cfg.embed_size,
                                          LayerNormFlow(x), mask)))

RECURSIVE EncoderLayersFlow(_, _, _, _)
EncoderLayersFlow(cfg, x, mask, i) ==
    IF i >= cfg.n_encoder_layers THEN x
    ELSE EncoderLayersFlow(cfg, EncoderLayerFlow(cfg, x, mask), mask, i + 1)

\* if self.final_ln is not None: x = self.final_ln(x)
FinalLnFlow(cfg, module, x) ==
    IF FinalLnKeys(module, cfg.post_ln) # <<>> THEN LayerNormFlow(x) ELSE x

\* Encoder.forward
EncoderFlow(cfg, x, mask) ==
    FinalLnFlow(cfg, "encoder", EncoderLayersFlow(cfg, x, mask, 0))

\* The rest of a POST-norm decoder layer, given its cross-attention output.
PostCrossFlow(cfg, attention, cross) ==
    [out |-> PostFeedForwardFlow(cfg, LayerNormFlow(AddFlow(attention, cross))),
     cross |-> cross]

\* The rest of a PRE-norm decoder layer, given its cross-attention output.
PreCrossFlow(cfg, attention, cross) ==
    [out |-> PreFeedForwardFlow(cfg, AddFlow(attention, cross)),
     cross |-> cross]

\* DecoderLayer.forward after the masked self-attention sub-block
CrossAttentionFlow(cfg, attention, memory, encoder_mask) ==
    IF cfg.post_ln
    THEN PostCrossFlow(cfg, attention,
                       MultiHeadAttentionFlow(
                           cfg.n_decoder_heads, cfg.embed_size, attention,
                           memory, memory, encoder_mask))
    ELSE PreCrossFlow(cfg, attention,
                      MultiHeadAttentionFlow(
                          cfg.n_decoder_heads, cfg.embed_size,
                          LayerNormFlow(attention), memory, memory,
                          encoder_mask))

\* DecoderLayer.forward: the layer's output and the output of its
\* cross-attention.
DecoderLayerFlow(cfg, x, memory, causal_mask, encoder_mask) ==
    CrossAttentionFlow(
        cfg,
        IF cfg.post_ln
        THEN LayerNormFlow(AddFlow(x, SelfAttentionFlow(
                                          cfg.n_decoder_heads, cfg.embed_size,
                                          x, causal_mask)))
        ELSE AddFlow(x, SelfAttentionFlow(cfg.n_decoder_heads, cfg.embed_size,
                                          LayerNormFlow(x), causal_mask)),
        memory, encoder_mask)

\* The stream after one more layer, and the cross-attention outputs so far.
Collect(cross, layer) ==
    [out |-> layer.out, cross |-> Append(cross, layer.cross)]

RECURSIVE DecoderLayersFlow(_, _, _, _, _, _)
\* for decoder_layer in self.decoder_layers
DecoderLayersFlow(cfg, acc, memory, causal_mask, encoder_mask, i) ==
    IF i >= cfg.n_decoder_layers THEN acc
    ELSE DecoderLayersFlow(cfg,
                           Collect(acc.cross,
                                   DecoderLayerFlow(cfg, acc.out, memory,
                                                    causal_mask, encoder_mask)),
                           memory, causal_mask, encoder_mask, i + 1)

\* create_causal_mask(x.size(1)).unsqueeze(0)
CausalMaskFlow(causal) ==
    UnsqueezeFlow(MaskFlow(<<Len(causal), Len(causal[1])>>,
                           LAMBDA idx : causal[idx[1]][idx[2]]),
                  0)

\* The decoder's final normalization, when it has one.
DecoderFinalFlow(cfg, r) ==
    [out |-> FinalLnFlow(cfg, "decoder", r.out), cross |-> r.cross]

\* Decoder.forward
DecoderFlow(cfg, x, memory, encoder_mask) ==
    DecoderFinalFlow(
        cfg,
        DecoderLayersFlow(cfg, [out |-> x, cross |-> <<>>], memory,
                          CausalMaskFlow(create_causal_mask(x.sh[2])),
                          encoder_mask, 0))

\* src_mask[:, torch.newaxis] for one batch row; mask is <<>> for None.
SourceMaskFlow(mask) ==
    IF mask = <<>> THEN NoMaskFlow
    ELSE UnsqueezeFlow(MaskFlow(<<1, Len(mask)>>, LAMBDA idx : mask[idx[2]]),
                       1)

\* Transformer.encode for one batch row: memory and src_mask
EncodeFlow(cfg, src_len, mask) ==
    [memory |-> EncoderFlow(cfg, EmbedFlow(src_len, cfg.embed_size, "src"),
                            SourceMaskFlow(mask)),
     src_mask |-> SourceMaskFlow(mask)]

\* The output projection: the logits, beside every decoder layer's
\* cross-attention output.
ProjectFlow(cfg, r) ==
    [logits |-> LinearFlow(r.out, cfg.vocab_size), cross |-> r.cross]

\* Transformer.decode for one batch row
DecodeFlow(cfg, memory, tgt_len, src_mask) ==
    ProjectFlow(cfg, DecoderFlow(cfg, EmbedFlow(tgt_len, cfg.embed_size, "tgt"),
                                 memory, src_mask))

\* What forward returns, beside the memory it was computed from.
WithMemory(memory, d) ==
    [memory |-> memory, logits |-> d.logits, cross |-> d.cross]

\* return self.decode(memory, tgt, src_mask), on what encode returned
DecodeEncoded(cfg, e, tgt_len) ==
    WithMemory(e.memory, DecodeFlow(cfg, e.memory, tgt_len, e.src_mask))

\* Transformer.forward for one batch row
ForwardFlow(cfg, src_len, tgt_len, mask) ==
    DecodeEncoded(cfg, EncodeFlow(cfg, src_len, mask), tgt_len)

(***************************************************************************)
(* The configurations, the directory and the results.                      *)
(***************************************************************************)
ConfigSpace(layers, encHeads, decHeads, embeds, ffs, lens, ties, posts, xs) ==
    {[vocab_size |-> 2, n_encoder_layers |-> ne, n_decoder_layers |-> nd,
      n_encoder_heads |-> he, n_decoder_heads |-> hd, embed_size |-> e,
      d_ff |-> ff, max_len |-> ml, tie_embeddings |-> t, post_ln |-> p,
      use_additional_dropout |-> FALSE, xavier_initialization |-> x] :
        ne \in layers, nd \in layers, he \in encHeads, hd \in decHeads,
        e \in embeds, ff \in ffs, ml \in lens, t \in ties, p \in posts,
        x \in xs}

\* The configurations of the persistence specification.
PersistConfigs ==
    {cfg \in ConfigSpace(0 .. MaxLayers, {2}, {2}, {2}, {12}, {2}, BOOLEAN,
                         BOOLEAN, BOOLEAN) :
        cfg.n_encoder_layers = cfg.n_decoder_layers}

\* The configurations of the construction and loading specification.
LoadConfigs ==
    ConfigSpace(0 .. MaxLayers, 1 .. 3, 1 .. 3, 2 .. 4, {3}, {2}, {TRUE},
                {TRUE}, {FALSE})

EmptyDisk == [cfgFile |-> {}, ptFile |-> {}]

\* The configurations of the shape specification.
ShapeConfigs ==
    {cfg \in ConfigSpace(0 .. MaxLayers, {1, 2}, {2}, {4}, {3}, 1 .. MaxLen,
                         {TRUE}, BOOLEAN, {FALSE}) :
        cfg.n_encoder_layers = cfg.n_decoder_layers}

\* The configurations of the information-flow specification.
FlowConfigs ==
    {cfg \in ConfigSpace(0 .. MaxLayers, {1, 2}, {1, 2}, {2}, {3},
                         {MaxFlowLen}, {TRUE}, BOOLEAN, {FALSE}) :
        cfg.n_encoder_heads = cfg.n_decoder_heads}

NoCall == [op |-> "none"]

TheModel == CHOOSE m \in model : TRUE

TheLoaded == CHOOSE m \in loaded : TRUE

(***************************************************************************)
(* Operations on the object and the directory.                             *)
(***************************************************************************)
\* model = Transformer(cfg)
Construct(cfg) ==
    LET e == ConstructError(cfg)
    IN  /\ constructs' = constructs + 1
        /\ err' = e
        /\ lastOp' = [op |-> "construct", cfg |-> cfg]
        /\ model' = IF e = "" THEN {NewTransformer(cfg, constructs + 1)}
                    ELSE model
        /\ UNCHANGED <<disk, loaded, steps, call>>

\* The parameters the training procedure writes: every model has them.
TrainedKeys == {EmbKey, FcWeightKey, FcBiasKey}

\* An in-place write through the parameter registered under key.
WriteParam(m, key, n) ==
    [m EXCEPT !.mem[m.ptr[key]].val = [by |-> "step", n |-> n, at |-> key]]

\* The training procedure updates one parameter of the caller's model, or
\* of the model from_pretrained returned, in place.
TrainWrite(onLoaded, key) ==
    /\ steps < MaxSteps
    /\ IF onLoaded THEN loaded # {} ELSE model # {}
    /\ steps' = steps + 1
    /\ IF onLoaded
       THEN /\ loaded' = {WriteParam(TheLoaded, key, steps + 1)}
            /\ UNCHANGED model
       ELSE /\ model' = {WriteParam(TheModel, key, steps + 1)}
            /\ UNCHANGED loaded
    /\ err' = ""
    /\ lastOp' = [op |-> "write", onLoaded |-> onLoaded, key |-> key]
    /\ UNCHANGED <<disk, constructs, call>>

\* model.save_pretrained(path): model.pt is written first, then config.json
\* is opened for writing; when that open fails the exception leaves the new
\* model.pt beside the config.json that was there.
SavePretrained(cfgWritable) ==
    /\ model # {}
    /\ disk' = [ptFile |-> {[sd |-> StateDict(TheModel),
                             producer |-> TheModel.config]},
                cfgFile |-> IF cfgWritable THEN {JsonDump(TheModel.config)}
                            ELSE disk.cfgFile]
    /\ err' = IF cfgWritable THEN "" ELSE "PermissionError"
    /\ lastOp' = [op |-> "save_pretrained", cfgWritable |-> cfgWritable]
    /\ UNCHANGED <<model, loaded, steps, constructs, call>>

\* What Transformer.from_pretrained(path) does with the directory: the
\* exception it raises ("" when none) and the model it returns.
FromPretrainedResult(d) ==
    IF d.cfgFile = {} THEN [err |-> "FileNotFoundError", ret |-> {}]
    ELSE LET cfg == JsonLoad(CHOOSE doc \in d.cfgFile : TRUE)
             e == ConstructError(cfg)
         IN  IF e # "" THEN [err |-> e, ret |-> {}]
             ELSE IF d.ptFile = {}
             THEN [err |-> "FileNotFoundError", ret |-> {}]
             ELSE LET m == NewTransformer(cfg, 0)
                      sd == (CHOOSE f \in d.ptFile : TRUE).sd
                  IN  IF LoadStateDictOK(m, sd)
                      THEN [err |-> "", ret |-> {LoadStateDict(m, sd)}]
                      ELSE [err |-> "RuntimeError", ret |-> {}]

\* loaded = Transformer.from_pretrained(path)
FromPretrained ==
    LET r == FromPretrainedResult(disk)
    IN  /\ loaded' = r.ret
        /\ err' = r.err
        /\ lastOp' = [op |-> "from_pretrained", after |-> lastOp.op,
                      afterErr |-> err]
        /\ UNCHANGED <<model, disk, steps, constructs, call>>

(***************************************************************************)
(* SpecShape: encode, decode and forward on a constructed model, with the  *)
(* shapes and the operation logs of the tensors they return.               *)
(***************************************************************************)
NoTensor == [ok |-> FALSE, sh |-> <<>>, role |-> "", log |-> <<>>]

\* What a call that does not decode has in place of the decoder's results.
NoDecode == [out |-> NoTensor, tgt_mask |-> <<>>]

\* The call returns, or raises: e is what encode gave and d what decode
\* gave.
Returns(op, batch, src_len, tgt_len, hasMask, e, d) ==
    /\ call' = [op |-> op, batch |-> batch, src_len |-> src_len,
                tgt_len |-> tgt_len, hasMask |-> hasMask,
                memory |-> e.memory,
                src_mask |-> IF e.memory.ok THEN e.src_mask ELSE NoMask,
                out |-> d.out, tgt_mask |-> d.tgt_mask]
    /\ err' = IF e.memory.ok /\ (op = "encode" \/ d.out.ok) THEN ""
              ELSE "RuntimeError"
    /\ lastOp' = [op |-> op]
    /\ UNCHANGED <<model, disk, loaded, steps, constructs>>

\* memory, src_mask = model.encode(src, src_mask)
Encode(batch, src_len, hasMask) ==
    /\ model # {}
    /\ call.op = "none"
    /\ Returns("encode", batch, src_len, 0, hasMask,
               EncodeShapes(TheModel.config, batch, src_len, hasMask),
               NoDecode)

\* out = model.decode(memory, tgt, src_mask), on what encode returned
Decode(tgt_len) ==
    /\ model # {}
    /\ call.op = "encode" /\ err = ""
    /\ Returns("decode", call.batch, call.src_len, tgt_len, call.hasMask,
               [memory |-> call.memory, src_mask |-> call.src_mask],
               DecodeShapes(TheModel.config, call.memory, call.batch, tgt_len,
                            call.src_mask))

\* return self.decode(memory, tgt, src_mask), unless encode raised
DecodeAfter(cfg, e, batch, tgt_len) ==
    IF e.memory.ok
    THEN DecodeShapes(cfg, e.memory, batch, tgt_len, e.src_mask)
    ELSE NoDecode

\* forward from what encode gave
ForwardEncoded(batch, src_len, tgt_len, hasMask, e) ==
    Returns("forward", batch, src_len, tgt_len, hasMask, e,
            DecodeAfter(TheModel.config, e, batch, tgt_len))

\* out = model(src, tgt, src_mask)
Forward(batch, src_len, tgt_len, hasMask) ==
    /\ model # {}
    /\ call.op = "none"
    /\ ForwardEncoded(batch, src_len, tgt_len, hasMask,
                      EncodeShapes(TheModel.config, batch, src_len, hasMask))

InitShape ==
    /\ model \in {{NewTransformer(cfg, 1)} : cfg \in ShapeConfigs}
    /\ disk = EmptyDisk
    /\ loaded = {}
    /\ err = ""
    /\ lastOp = [op |-> "construct"]
    /\ steps = 0
    /\ constructs = 1
    /\ call = NoCall

\* Lengths up to one more than the largest max_len.
NextShape ==
    \/ \E batch \in 1 .. MaxBatch, src_len \in 1 .. MaxLen + 1,
          hasMask \in BOOLEAN : Encode(batch, src_len, hasMask)
    \/ \E tgt_len \in 1 .. MaxLen + 1 : Decode(tgt_len)
    \/ \E batch \in 1 .. MaxBatch, src_len \in 1 .. MaxLen + 1,
          tgt_len \in 1 .. MaxLen + 1, hasMask \in BOOLEAN :
          Forward(batch, src_len, tgt_len, hasMask)

SpecShape == InitShape /\ [][NextShape]_vars

(***************************************************************************)
(* SpecFlow: forward for one batch row of a constructed model, with the    *)
(* inputs every element is computed from.  mask is the source padding mask *)
(* of the row, <<>> for None.                                              *)
(***************************************************************************)
FlowReturns(src_len, tgt_len, mask, r) ==
    /\ call' = [op |-> "forward", src_len |-> src_len, tgt_len |-> tgt_len,
                src_mask |-> mask, memory |-> r.memory, logits |-> r.logits,
                cross |-> r.cross]
    /\ err' = ""
    /\ lastOp' = [op |-> "forward"]
    /\ UNCHANGED <<model, disk, loaded, steps, constructs>>

ForwardFlowCall(src_len, tgt_len, mask) ==
    /\ model # {}
    /\ call.op = "none"
    /\ src_len <= TheModel.config.max_len
    /\ tgt_len <= TheModel.config.max_len
    /\ FlowReturns(src_len, tgt_len, mask,
                   ForwardFlow(TheModel.config, src_len, tgt_len, mask))

\* The padding masks for a source of length n, and None.
MasksFor(n) == {<<>>} \cup [1 .. n -> {0, 1}]

InitFlow ==
    /\ model \in {{NewTransformer(cfg, 1)} : cfg \in FlowConfigs}
    /\ disk = EmptyDisk
    /\ loaded = {}
    /\ err = ""
    /\ lastOp = [op |-> "construct"]
    /\ steps = 0
    /\ constructs = 1
    /\ call = NoCall

NextFlow ==
    \E src_len \in 1 .. MaxFlowLen, tgt_len \in 1 .. MaxFlowLen :
        \E mask \in MasksFor(src_len) :
            ForwardFlowCall(src_len, tgt_len, mask)

SpecFlow == InitFlow /\ [][NextFlow]_vars

(***************************************************************************)
(* Spec: one model is constructed, trained, called, saved and loaded back. *)
(***************************************************************************)
Init ==
    /\ model = {}
    /\ disk = EmptyDisk
    /\ loaded = {}
    /\ err = ""
    /\ lastOp = [op |-> "none"]
    /\ steps = 0
    /\ constructs = 0
    /\ call = NoCall

Next ==
    \/ \E cfg \in PersistConfigs : model = {} /\ Construct(cfg)
    \/ \E onLoaded \in BOOLEAN, key \in TrainedKeys : TrainWrite(onLoaded, key)
    \/ \E hasMask \in BOOLEAN : Forward(1, 2, 1, hasMask)
    \/ \E w \in BOOLEAN : SavePretrained(w)
    \/ FromPretrained

Spec == Init /\ [][Next]_vars

(***************************************************************************)
(* SpecLoad: the caller constructs models of any configuration and saves   *)
(* them into one directory, and loads the directory back.                  *)
(***************************************************************************)
NextLoad ==
    \/ \E cfg \in LoadConfigs : constructs < MaxConstructs /\ Construct(cfg)
    \/ \E w \in BOOLEAN : SavePretrained(w)
    \/ FromPretrained

SpecLoad == Init /\ [][NextLoad]_vars

(***************************************************************************)
(* The properties.                                                         *)
(***************************************************************************)
\* C1 (causal property): after forward, for any source, any number of
\* decoder layers and either normalization placement, every element of the
\* logits at target position i is computed from target tokens at positions
\* up to i only, so a change of a later target token leaves it as it was.
C1_Causal ==
    call.op = "forward" =>
        \A idx \in DOMAIN call.logits.data :
            \A a \in call.logits.data[idx] : a[1] = "tgt" => a[2] <= idx[2]

\* C1's case: with decoder layers, the logits at the last of several target
\* positions are computed from the first and the last target token, and the
\* logits at the first position from no later one.
C1_Witness ==
    /\ call.op = "forward"
    /\ TheModel.config.n_decoder_layers >= 1
    /\ call.tgt_len >= 2
    /\ <<"tgt", 1>> \in call.logits.data[<<1, call.tgt_len, 1>>]
    /\ <<"tgt", call.tgt_len>> \in call.logits.data[<<1, call.tgt_len, 1>>]
    /\ <<"tgt", 2>> \notin call.logits.data[<<1, 1, 1>>]

\* C2 (padding-mask property): after forward with a source padding mask, the
\* token at a source position whose mask value is 0 is used by no element
\* of the encoder output at a position whose mask value is 1, by no element
\* of any decoder layer's cross-attention output, and by no logit.
C2_PaddingMask ==
    (call.op = "forward" /\ call.src_mask # <<>>) =>
        \A p \in 1 .. call.src_len :
            call.src_mask[p] = 0 =>
                /\ \A idx \in DOMAIN call.memory.data :
                      call.src_mask[idx[2]] = 1 =>
                          <<"src", p>> \notin call.memory.data[idx]
                /\ \A k \in DOMAIN call.cross :
                      \A idx \in DOMAIN call.cross[k].data :
                          <<"src", p>> \notin call.cross[k].data[idx]
                /\ \A idx \in DOMAIN call.logits.data :
                      <<"src", p>> \notin call.logits.data[idx]

\* C2's case: with encoder and decoder layers and a mask that pads one
\* position and keeps another, the padded token is used by the encoder
\* output at its own position, and the kept token by the logits.
C2_Witness ==
    /\ call.op = "forward"
    /\ call.src_mask # <<>>
    /\ TheModel.config.n_encoder_layers >= 1
    /\ TheModel.config.n_decoder_layers >= 1
    /\ \E p \in 1 .. call.src_len, j \in 1 .. call.src_len :
          /\ call.src_mask[p] = 0
          /\ call.src_mask[j] = 1
          /\ <<"src", p>> \in call.memory.data[<<1, p, 1>>]
          /\ <<"src", j>> \in call.logits.data[<<1, 1, 1>>]

\* The embedding matrix and the output projection of m are one tensor.
SameTensor(m) ==
    /\ m.ptr[EmbKey] = m.ptr[FcWeightKey]
    /\ StateDict(m)[EmbKey] = StateDict(m)[FcWeightKey]

\* C3 (weight tying): in every state, a model built with tie_embeddings,
\* whether constructed by the caller or returned by from_pretrained, holds
\* its embedding matrix and its output-projection matrix in the same
\* storage, and an in-place write through either name is read through both.
C3_WeightTying ==
    /\ \A m \in model \cup loaded : m.config.tie_embeddings => SameTensor(m)
    /\ (lastOp.op = "write" /\ lastOp.key \in {EmbKey, FcWeightKey}) =>
          LET m == IF lastOp.onLoaded THEN TheLoaded ELSE TheModel
              written == [by |-> "step", n |-> steps, at |-> lastOp.key]
          IN  m.config.tie_embeddings =>
                 /\ StateDict(m)[EmbKey].val = written
                 /\ StateDict(m)[FcWeightKey].val = written

\* C3's case: a tied, xavier-initialized model came back from
\* from_pretrained, its embedding matrix was written in place, and the write
\* is read through the output projection.
C3_Witness ==
    /\ loaded # {}
    /\ TheLoaded.config.tie_embeddings
    /\ TheLoaded.config.xavier_initialization
    /\ lastOp.op = "write"
    /\ lastOp.onLoaded
    /\ lastOp.key = EmbKey
    /\ StateDict(TheLoaded)[FcWeightKey].val.by = "step"

\* Two configurations differ in a layer count, a head count or the
\* embedding size.
Mismatch(a, b) ==
    \/ a.n_encoder_layers # b.n_encoder_layers
    \/ a.n_decoder_layers # b.n_decoder_layers
    \/ a.n_encoder_heads # b.n_encoder_heads
    \/ a.n_decoder_heads # b.n_decoder_heads
    \/ a.embed_size # b.embed_size

\* C4 as the claim states it: whenever from_pretrained ran on a directory
\* whose model.pt was produced by a model that differs from config.json in
\* a layer count, a head count or the embedding size, it raised and
\* returned no model.
C4_MismatchedLoadFails ==
    (/\ lastOp.op = "from_pretrained"
     /\ disk.cfgFile # {}
     /\ disk.ptFile # {}
     /\ Mismatch((CHOOSE f \in disk.ptFile : TRUE).producer,
                 JsonLoad(CHOOSE doc \in disk.cfgFile : TRUE)))
        => (err # "" /\ loaded = {})

\* C5 (persistence round trip): when from_pretrained directly follows a
\* save_pretrained that completed, it raises nothing and returns a model
\* whose config equals the saved model's field for field, whose state_dict
\* equals it name for name and value for value, and whose positional table
\* is the same.
C5_RoundTrip ==
    (/\ lastOp.op = "from_pretrained"
     /\ lastOp.after = "save_pretrained"
     /\ lastOp.afterErr = "")
        => /\ err = ""
           /\ loaded # {}
           /\ TheLoaded.config = TheModel.config
           /\ StateDict(TheLoaded) = StateDict(TheModel)
           /\ TheLoaded.pos_enc = TheModel.pos_enc

\* C5's case: an untied PRE-norm model with layers and a trained parameter
\* was saved and loaded back.
C5_Witness ==
    /\ lastOp.op = "from_pretrained"
    /\ lastOp.after = "save_pretrained"
    /\ lastOp.afterErr = ""
    /\ loaded # {}
    /\ ~TheModel.config.tie_embeddings
    /\ ~TheModel.config.post_ln
    /\ TheModel.config.n_encoder_layers >= 1
    /\ TheModel.config.d_ff >= 10
    /\ StateDict(TheLoaded)[EmbKey].val.by = "step"

\* C6 (shape law): with source and target lengths up to max_len, forward
\* (and decode) returns shape (B, Lt, vocab_size); encode returns memory of
\* shape (B, Ls, embed_size) with the mask reshaped to (B, 1, Ls), or no
\* mask when none was given.
C6_ShapeLaw ==
    /\ (/\ call.op \in {"encode", "decode", "forward"}
        /\ call.src_len <= TheModel.config.max_len)
          => /\ call.memory.ok
             /\ call.memory.sh = <<call.batch, call.src_len,
                                   TheModel.config.embed_size>>
             /\ IF call.hasMask
                THEN /\ call.src_mask.present
                     /\ call.src_mask.sh = <<call.batch, 1, call.src_len>>
                ELSE ~call.src_mask.present
    /\ (/\ call.op \in {"decode", "forward"}
        /\ call.src_len <= TheModel.config.max_len
        /\ call.tgt_len <= TheModel.config.max_len)
          => /\ err = ""
             /\ call.out.ok
             /\ call.out.sh = <<call.batch, call.tgt_len,
                                TheModel.config.vocab_size>>

\* C6's case: forward on the largest batch with a mask, a source of length
\* max_len and a shorter target, through encoder and decoder layers.
C6_Witness ==
    /\ call.op = "forward"
    /\ call.hasMask
    /\ call.batch = MaxBatch
    /\ call.src_len = TheModel.config.max_len
    /\ call.tgt_len < call.src_len
    /\ TheModel.config.n_decoder_layers >= 1
    /\ call.out.sh = <<MaxBatch, call.tgt_len, TheModel.config.vocab_size>>

\* C7 as the claim states it: for every max_len, encode (or forward) with a
\* source longer than max_len, and decode (or forward) with a target longer
\* than max_len, raises and returns no tensor.
C7_TooLongRaises ==
    /\ (/\ call.op \in {"encode", "forward"}
        /\ call.src_len > TheModel.config.max_len)
          => (err # "" /\ ~call.memory.ok)
    /\ (/\ call.op \in {"decode", "forward"}
        /\ call.tgt_len > TheModel.config.max_len)
          => (err # "" /\ ~call.out.ok)

\* C8 as the claim states it: every constructed Transformer, whatever its
\* layer counts, has an embed_size divisible by both head counts.
C8_DivisibilityEnforced ==
    \A m \in model \cup loaded :
        /\ m.config.embed_size % m.config.n_encoder_heads = 0
        /\ m.config.embed_size % m.config.n_decoder_heads = 0

\* C9 (causal mask): the mask create_causal_mask made for a target of
\* length n is an n x n matrix of 0s and 1s whose entry (i, j) is 1 exactly
\* when j <= i; its i-th row, counted from 1, has i visible and n - i masked
\* entries; for n = 4 it is the matrix of the specification.
C9_CausalMask ==
    (call.op \in {"decode", "forward"} /\ call.tgt_mask # <<>>) =>
        LET n == call.tgt_len
            m == call.tgt_mask
        IN  /\ Len(m) = n
            /\ \A i \in 1 .. n :
                  /\ Len(m[i]) = n
                  /\ \A j \in 1 .. n : m[i][j] = IF j <= i THEN 1 ELSE 0
                  /\ Cardinality({j \in 1 .. n : m[i][j] = 1}) = i
                  /\ Cardinality({j \in 1 .. n : m[i][j] = 0}) = n - i
            /\ n = 4 => m = <<<<1, 0, 0, 0>>, <<1, 1, 0, 0>>,
                              <<1, 1, 1, 0>>, <<1, 1, 1, 1>>>>

\* C9's case: decode made the mask for a target of length 4.
C9_Witness ==
    /\ call.op = "decode"
    /\ call.tgt_len = 4
    /\ call.tgt_mask = <<<<1, 0, 0, 0>>, <<1, 1, 0, 0>>,
                         <<1, 1, 1, 0>>, <<1, 1, 1, 1>>>>

\* The mask kind a padding-masked attention of the call receives.
PaddingKind == IF call.hasMask THEN "padding" ELSE "none"

\* The sub-blocks of an encoder layer and of a decoder layer, in order.
EncoderSubBlocks ==
    <<Entry("attention", "mha", PaddingKind, "src", 0),
      Entry("ff", "ff", "", "", 0)>>

DecoderSubBlocks ==
    <<Entry("attention", "mmha", "causal", "tgt", 0),
      Entry("attention", "mha", PaddingKind, "memory", 0),
      Entry("ff", "ff", "", "", 0)>>

\* The four log entries after the first base entries are one sub-block
\* around sub: POST-norm is sub-layer, dropout, add, normalize; PRE-norm is
\* normalize, sub-layer, dropout, add; the add's other operand is the
\* stream as it was before the sub-block.
SubBlockOK(log, base, sub, post_ln) ==
    LET at == IF post_ln THEN base + 1 ELSE base + 2
    IN  /\ log[at] = sub
        /\ log[at + 1].op = "dropout"
        /\ log[at + 2].op = "add"
        /\ log[at + 2].res = base
        /\ log[IF post_ln THEN base + 4 ELSE base + 1].op = "ln"

\* log is n_layers layers of the sub-blocks subs, and then one final
\* normalization exactly in PRE-norm mode.
LayersOK(log, n_layers, subs, post_ln) ==
    /\ Len(log) = 4 * Len(subs) * n_layers + (IF post_ln THEN 0 ELSE 1)
    /\ \A l \in 0 .. n_layers - 1, t \in 1 .. Len(subs) :
          SubBlockOK(log, 4 * Len(subs) * l + 4 * (t - 1), subs[t], post_ln)
    /\ ~post_ln => log[Len(log)] = Entry("ln", "final_ln", "", "", 0)

\* C10 (normalization placement and sub-block order): the operations that
\* produced the encoder memory are, per layer, self-attention then
\* feed-forward; those that produced the decoder output are, per layer,
\* causally masked self-attention, cross-attention over the memory with the
\* padding mask only, then feed-forward; every sub-block has the order of
\* the placement the model was constructed with, and a final normalization
\* follows the last layer exactly in PRE-norm mode.
C10_SubBlockOrder ==
    /\ (call.op \in {"encode", "decode", "forward"} /\ call.memory.ok) =>
          LayersOK(call.memory.log, TheModel.config.n_encoder_layers,
                   EncoderSubBlocks, TheModel.config.post_ln)
    /\ (call.op \in {"decode", "forward"} /\ call.out.ok) =>
          LayersOK(call.out.log, TheModel.config.n_decoder_layers,
                   DecoderSubBlocks, TheModel.config.post_ln)

\* C10's case: forward with a mask through the largest PRE-norm decoder.
C10_Witness ==
    /\ call.op = "forward"
    /\ call.out.ok
    /\ call.hasMask
    /\ ~TheModel.config.post_ln
    /\ TheModel.config.n_decoder_layers = MaxLayers
    /\ Len(call.out.log) = 12 * MaxLayers + 1

====
